---- MODULE Spec2Model ----
(***************************************************************************)
(* Model of mylib (AdrienChampion/mylib): the `wrap_usize!` index wrapper, *)
(* its range, its vector-map and paired iterators, the trivial `usize`     *)
(* hasher and the hash map built on it (src/src/safe/int.rs), and the      *)
(* `chain_one` iterator adapter (src/src/coll.rs).                         *)
(*                                                                         *)
(* Rust values are modelled as follows.                                    *)
(*   usize        a natural number in 0 .. USIZE_MAX                       *)
(*   Option<T>    a sequence of length 0 (None) or 1 (Some)                *)
(*   $t           the record [val |-> usize]                               *)
(*   $map<T>      the record [vec |-> the elements of its Vec<T>, in      *)
(*                order, cap |-> the capacity of that Vec<T>]              *)
(*   a panic      the field panic = TRUE of an operation's result          *)
(***************************************************************************)
EXTENDS Integers, Sequences, FiniteSets, TLC

\* ------------------------------------------------------------------------
\* Bounds of the model.

\* Number of values a byte takes in the model (256 on a machine): scaled
\* down so that a whole usize fits the integers of the model checker.
ByteRadix == 2
\* Longest vector the vector-map operations build.
MaxLen == 3
\* Number of distinct element values stored in collections.
NumElems == 2
\* Largest span (end - start) of the ranges that are iterated.
MaxSpan == 3
\* Number of distinct keys used with the hash map.
NumKeys == 3

Elems == 1 .. NumElems

\* ------------------------------------------------------------------------
\* State.

VARIABLES
  target,            \* cfg target_pointer_width: 32 or 64
  debug_assertions,  \* build profile: TRUE in a debug build, FALSE in release
  cfg_debug,         \* whether the custom cfg flag `debug` is set for the build
  endian,            \* byte order of the target: "le" or "be"
  mode,              \* position of the program, "panicked" after a panic
  out,               \* items the current iterator has yielded so far
  done,              \* TRUE once the current iterator has returned None
  ret,               \* the last operation and what it returned
  map,               \* the $map<T> value
  iter,              \* the $iter value: [kind, cursor, map]
  pushes,            \* pushes since new() while only pushes happened, else -1
  lastPass,          \* items of the previous complete index_iter() pass
  range,             \* the $range value: [start, end]
  hasher,            \* the HashUsize value: [buf]
  written,           \* Some(n) when the last write stored the bytes of n
  hmap,              \* the IntHMap value
  lhs,               \* a $t value
  rhs,               \* another $t value of the same domain
  chain,             \* the ChainOne value: [iter, and_then]
  tyck               \* the last use type-checked: [site, dom, arg, ok]

build_vars == <<target, debug_assertions, cfg_debug, endian>>
shared_vars == <<mode, out, done, ret>>
map_vars == <<map, iter, pushes, lastPass>>
range_vars == <<range>>
hash_vars == <<hasher, written>>
hmap_vars == <<hmap>>
t_vars == <<lhs, rhs>>
chain_vars == <<chain>>
ty_vars == <<tyck>>
vars == <<build_vars, shared_vars, map_vars, range_vars, hash_vars, hmap_vars,
          t_vars, chain_vars, ty_vars>>

\* ------------------------------------------------------------------------
\* Machine integers.

RECURSIVE Pow(_, _)
Pow(b, e) == IF e = 0 THEN 1 ELSE b * Pow(b, e - 1)

\* consts::usize_bytes, selected by the target's pointer width.
usize_bytes == IF target = 32 THEN 4 ELSE 8

USIZE_MAX == Pow(ByteRadix, usize_bytes) - 1

Max(x, y) == IF x >= y THEN x ELSE y

None == << >>
Some(x) == << x >>

\* `+= 1` on a usize: panics on overflow when overflow checks are compiled
\* in (debug profile), wraps around otherwise.
usize_add_assign(x, y) ==
  IF x + y > USIZE_MAX
    THEN [panic |-> debug_assertions, val |-> (x + y) % (USIZE_MAX + 1)]
    ELSE [panic |-> FALSE, val |-> x + y]

\* `-= 1` on a usize: panics on underflow when overflow checks are compiled
\* in (debug profile), wraps around otherwise.
usize_sub_assign(x, y) ==
  IF x - y < 0
    THEN [panic |-> debug_assertions, val |-> (x - y) % (USIZE_MAX + 1)]
    ELSE [panic |-> FALSE, val |-> x - y]

\* Ord::cmp / PartialOrd::partial_cmp of two usize.
usize_partial_cmp(x, y) ==
  IF x < y THEN "Less" ELSE IF x = y THEN "Equal" ELSE "Greater"

\* ------------------------------------------------------------------------
\* The wrapper $t.

t_new(val) == [val |-> val]
t_zero == [val |-> 0]
t_one == [val |-> 1]
t_get(self) == self.val
t_inner(self) == self.val
t_deref(self) == self.val
t_from(val) == t_new(val)
t_into(self) == self.val

\* inc / dec: the result holds the updated wrapper and whether it panicked.
t_inc(self) ==
  LET r == usize_add_assign(self.val, 1)
  IN  [panic |-> r.panic, self |-> [val |-> r.val]]
\* Variant of dec that wraps around in every build (wrapping_sub).
t_dec_wrapping(self) ==
  [panic |-> FALSE, self |-> [val |-> (self.val - 1) % (USIZE_MAX + 1)]]
t_dec(self) ==
  LET r == usize_sub_assign(self.val, 1)
  IN  [panic |-> r.panic, self |-> [val |-> r.val]]

\* Variant of the equality that holds of any two values.
t_eq_any(a, b) == TRUE
\* derive(PartialEq, Eq): field-wise equality.
t_eq(a, b) == a.val = b.val
\* Variant of the order with its operands exchanged.
t_partial_cmp_rev(a, b) == usize_partial_cmp(b.val, a.val)
\* derive(PartialOrd, Ord): lexicographic order on the only field.
t_partial_cmp(a, b) == usize_partial_cmp(a.val, b.val)
t_lt(a, b) == t_partial_cmp(a, b) = "Less"
t_ge(a, b) == t_partial_cmp(a, b) \in {"Equal", "Greater"}

\* PartialEq<usize> and PartialOrd<usize> for $t.
t_eq_usize(self, int) == self.val = int
t_partial_cmp_usize(self, int) == usize_partial_cmp(self.val, int)
t_lt_usize(self, int) == t_partial_cmp_usize(self, int) = "Less"
t_ge_usize(self, int) == t_partial_cmp_usize(self, int) \in {"Equal", "Greater"}

\* ------------------------------------------------------------------------
\* The vector-map $map<T>.  Operations that can panic return a record with
\* the field panic; operations that mutate return the updated map as self.

\* Vec::reverse on the elements.
RECURSIVE vec_reverse(_)
vec_reverse(s) ==
  IF s = << >> THEN << >> ELSE Append(vec_reverse(Tail(s)), Head(s))

map_of(vec) == [vec |-> vec, cap |-> Len(vec)]
map_new == [vec |-> << >>, cap |-> 0]
map_with_capacity(capacity) == [vec |-> << >>, cap |-> capacity]
map_clear(self) == [self EXCEPT !.vec = << >>]
map_len(self) == Len(self.vec)
map_capacity(self) == self.cap
\* Variant of next_index that returns the index of the last element.
map_next_index_last(self) == t_from(Max(map_len(self), 1) - 1)
map_next_index(self) == t_from(map_len(self))

\* Variant of push that inserts at the front.
map_push_front(self, elem) ==
  [vec |-> <<elem>> \o self.vec,
   cap |-> IF Len(self.vec) < self.cap
             THEN self.cap
             ELSE Max(2 * self.cap, Len(self.vec) + 1)]

\* push: appends, growing the capacity (amortized doubling) when full.
map_push(self, elem) ==
  [vec |-> Append(self.vec, elem),
   cap |-> IF Len(self.vec) < self.cap
             THEN self.cap
             ELSE Max(2 * self.cap, Len(self.vec) + 1)]

\* pop: removes and returns the last element, None when empty.
map_pop(self) ==
  IF self.vec = << >>
    THEN [self |-> self, ret |-> None]
    ELSE [self |-> [self EXCEPT !.vec = SubSeq(self.vec, 1, Len(self.vec) - 1)],
          ret |-> Some(self.vec[Len(self.vec)])]

\* swap(a, b): Vec::swap(*a, *b), out of bounds panics.
map_swap(self, a, b) ==
  LET i == t_deref(a)
      j == t_deref(b)
  IN  IF i >= Len(self.vec) \/ j >= Len(self.vec)
        THEN [panic |-> TRUE, self |-> self]
        ELSE [panic |-> FALSE,
              self |-> [self EXCEPT !.vec = [self.vec EXCEPT ![i + 1] = self.vec[j + 1],
                                                             ![j + 1] = self.vec[i + 1]]]]

\* Variant of swap_remove that shifts the tail down (Vec::remove).
map_swap_remove_shift(self, idx) ==
  LET i == t_deref(idx)
      n == Len(self.vec)
  IN  IF i >= n
        THEN [panic |-> TRUE, self |-> self, ret |-> None]
        ELSE [panic |-> FALSE,
              self |-> [self EXCEPT !.vec =
                          SubSeq(self.vec, 1, i) \o SubSeq(self.vec, i + 2, n)],
              ret |-> Some(self.vec[i + 1])]

\* swap_remove(idx): Vec::swap_remove(*idx): the last element replaces the
\* removed one; out of bounds panics.
map_swap_remove(self, idx) ==
  LET i == t_deref(idx)
      n == Len(self.vec)
  IN  IF i >= n
        THEN [panic |-> TRUE, self |-> self, ret |-> None]
        ELSE [panic |-> FALSE,
              self |-> [self EXCEPT !.vec =
                          SubSeq([self.vec EXCEPT ![i + 1] = self.vec[n]], 1, n - 1)],
              ret |-> Some(self.vec[i + 1])]

\* Index<$t>: & self.vec[ index.get() ], out of bounds panics.
map_index(self, index) ==
  LET i == t_get(index)
  IN  IF i >= Len(self.vec)
        THEN [panic |-> TRUE, ret |-> None]
        ELSE [panic |-> FALSE, ret |-> Some(self.vec[i + 1])]

\* Variant of the indexed write that clamps the index to the last position.
map_index_mut_clamp(self, index, elem) ==
  LET i == t_get(index)
      n == Len(self.vec)
  IN  IF n = 0
        THEN [panic |-> TRUE, self |-> self]
        ELSE [panic |-> FALSE,
              self |-> [self EXCEPT !.vec[IF i >= n THEN n ELSE i + 1] = elem]]

\* IndexMut<$t> followed by the assignment of elem through the reference.
map_index_mut(self, index, elem) ==
  LET i == t_get(index)
  IN  IF i >= Len(self.vec)
        THEN [panic |-> TRUE, self |-> self]
        ELSE [panic |-> FALSE, self |-> [self EXCEPT !.vec[i + 1] = elem]]

\* ------------------------------------------------------------------------
\* The paired iterator $iter<T>: [kind, cursor, map].  The borrowing flavour
\* ("ref") reads the map it borrows; the consuming flavour ("own") holds it.

NoIter == [kind |-> "none", cursor |-> t_zero, map |-> map_new]

\* Variant of mk_ref whose cursor starts at one.
iter_mk_ref_one(m) == [kind |-> "ref", cursor |-> t_one, map |-> m]
\* $iter::mk_ref
iter_mk_ref(m) == [kind |-> "ref", cursor |-> t_zero, map |-> m]

\* Variant of new that does not reverse the vector.
iter_new_no_reverse(m) == [kind |-> "own", cursor |-> t_zero, map |-> m]
\* $iter::new: reverses the vector once.
iter_new(m) ==
  [kind |-> "own", cursor |-> t_zero, map |-> [m EXCEPT !.vec = vec_reverse(m.vec)]]

\* Iterator::next for $iter<& $map<T>>.
iter_ref_next(self) ==
  IF t_ge_usize(self.cursor, map_len(self.map))
    THEN [panic |-> FALSE, self |-> self, ret |-> None]
    ELSE LET elem == map_index(self.map, self.cursor)
             c == t_inc(self.cursor)
         IN  IF elem.panic \/ c.panic
               THEN [panic |-> TRUE, self |-> self, ret |-> None]
               ELSE [panic |-> FALSE,
                     self |-> [self EXCEPT !.cursor = c.self],
                     ret |-> Some(<<self.cursor, elem.ret[1]>>)]

\* Iterator::next for $iter<$map<T>>.
iter_own_next(self) ==
  LET p == map_pop(self.map)
  IN  IF p.ret # None
        THEN LET c == t_inc(self.cursor)
             IN  IF c.panic
                   THEN [panic |-> TRUE, self |-> self, ret |-> None]
                   ELSE [panic |-> FALSE,
                         self |-> [self EXCEPT !.cursor = c.self, !.map = p.self],
                         ret |-> Some(<<self.cursor, p.ret[1]>>)]
        ELSE [panic |-> FALSE, self |-> [self EXCEPT !.map = p.self], ret |-> None]

\* ------------------------------------------------------------------------
\* The range $range: [start, end].

range_new(start, end) == [start |-> t_from(start), end |-> t_from(end)]
range_zero_to(end) == [start |-> t_from(0), end |-> t_from(end)]

\* Variant of next that also yields end (`>` in place of `>=`).
range_next_inclusive(self) ==
  IF t_partial_cmp(self.start, self.end) = "Greater"
    THEN [panic |-> FALSE, self |-> self, ret |-> None]
    ELSE LET r == usize_add_assign(self.start.val, 1)
         IN  IF r.panic
               THEN [panic |-> TRUE, self |-> self, ret |-> None]
               ELSE [panic |-> FALSE,
                     self |-> [self EXCEPT !.start = [val |-> r.val]],
                     ret |-> Some(self.start)]

\* Iterator::next for $range.
range_next(self) ==
  IF t_ge(self.start, self.end)
    THEN [panic |-> FALSE, self |-> self, ret |-> None]
    ELSE LET r == usize_add_assign(self.start.val, 1)
         IN  IF r.panic
               THEN [panic |-> TRUE, self |-> self, ret |-> None]
               ELSE [panic |-> FALSE,
                     self |-> [self EXCEPT !.start = [val |-> r.val]],
                     ret |-> Some(self.start)]

\* ------------------------------------------------------------------------
\* The trivial hasher HashUsize: [buf], usize_bytes bytes.

\* usize::to_ne_bytes, as Hasher::write_usize passes them to write.
to_ne_bytes(n) ==
  [i \in 1 .. usize_bytes |->
     IF endian = "le"
       THEN (n \div Pow(ByteRadix, i - 1)) % ByteRadix
       ELSE (n \div Pow(ByteRadix, usize_bytes - i)) % ByteRadix]

\* transmute of [u8 ; usize_bytes] to the unsigned integer of that width.
RECURSIVE transmute_from(_, _)
transmute_from(buf, i) ==
  IF i > Len(buf)
    THEN 0
    ELSE buf[i] * (IF endian = "le" THEN Pow(ByteRadix, i - 1)
                                    ELSE Pow(ByteRadix, Len(buf) - i))
         + transmute_from(buf, i + 1)
transmute(buf) == transmute_from(buf, 1)

build_hasher == [buf |-> [n \in 1 .. usize_bytes |-> 0]]

\* test_bytes: TRUE when it panics.  The checking variant is compiled under
\* cfg(debug), the empty one under cfg(not(debug)).
test_bytes(bytes) ==
  IF cfg_debug THEN Len(bytes) # usize_bytes ELSE FALSE

\* finish: the stored bytes as an integer, widened to u64.
finish(self) == transmute(self.buf)

\* The loop of write from index n on: bytes[n] panics out of bounds.
RECURSIVE write_loop(_, _, _)
write_loop(self, bytes, n) ==
  IF n >= usize_bytes
    THEN [panic |-> FALSE, self |-> self]
    ELSE IF n >= Len(bytes)
      THEN [panic |-> TRUE, self |-> self]
      ELSE write_loop([self EXCEPT !.buf[n + 1] = bytes[n + 1]], bytes, n + 1)

\* Variant of write whose loop starts at index 1.
write_from_one(self, bytes) ==
  IF test_bytes(bytes)
    THEN [panic |-> TRUE, self |-> self]
    ELSE write_loop(self, bytes, 1)

write(self, bytes) ==
  IF test_bytes(bytes)
    THEN [panic |-> TRUE, self |-> self]
    ELSE write_loop(self, bytes, 0)

\* Hasher::write_usize (provided method): writes the native-endian bytes.
write_usize(self, i) == write(self, to_ne_bytes(i))

\* derive(Hash) for $t: hashes the only field.
t_hash(self, state) == write_usize(state, self.val)

\* ------------------------------------------------------------------------
\* The hash map IntHMap<Int, V>, a HashMap with the trivial hasher:
\* [nb |-> number of buckets, tab |-> the buckets, each a sequence of
\* <<key, value>> entries in insertion order].

\* The hash the table computes for a key: a fresh hasher, fed the key.
hash_key(k) == finish(t_hash(k, build_hasher).self)

bucket_of(self, k) == (hash_key(k) % self.nb) + 1

\* Position of the entry of key k in a bucket, 0 when there is none.
find(bucket, k) ==
  LET S == {i \in 1 .. Len(bucket) : t_eq(bucket[i][1], k)}
  IN  IF S = {} THEN 0 ELSE CHOOSE i \in S : \A j \in S : i <= j

hmap_new == [nb |-> 1, tab |-> << << >> >>]

RECURSIVE next_power_of_two(_, _)
next_power_of_two(n, p) == IF p >= n THEN p ELSE next_power_of_two(n, 2 * p)

hmap_with_capacity(capa) ==
  LET nb == next_power_of_two(capa, 1)
  IN  [nb |-> nb, tab |-> [b \in 1 .. nb |-> << >>]]

RECURSIVE hmap_iter_from(_, _)
hmap_iter_from(self, b) ==
  IF b > self.nb THEN << >> ELSE self.tab[b] \o hmap_iter_from(self, b + 1)
\* Iteration: the entries, bucket after bucket.
hmap_iter(self) == hmap_iter_from(self, 1)

hmap_len(self) == Len(hmap_iter(self))

\* HashMap::get
hmap_get(self, k) ==
  LET b == self.tab[bucket_of(self, k)]
      i == find(b, k)
  IN  IF i = 0 THEN None ELSE Some(b[i][2])

\* Adds an entry for a key the table does not hold.
hmap_place(self, k, v) ==
  LET bi == bucket_of(self, k)
  IN  [self EXCEPT !.tab[bi] = Append(self.tab[bi], <<k, v>>)]

RECURSIVE hmap_place_all(_, _)
hmap_place_all(self, entries) ==
  IF entries = << >>
    THEN self
    ELSE hmap_place_all(hmap_place(self, Head(entries)[1], Head(entries)[2]),
                        Tail(entries))

\* Growth: the entries are placed again in a table of nb buckets.
hmap_resize(self, nb) ==
  hmap_place_all([nb |-> nb, tab |-> [b \in 1 .. nb |-> << >>]], hmap_iter(self))

\* HashMap::insert: replaces the value of a key it holds (returning the old
\* one), else adds an entry, growing the table first when it is full.
hmap_insert(self, k, v) ==
  LET bi == bucket_of(self, k)
      i == find(self.tab[bi], k)
  IN  IF i # 0
        THEN [self |-> [self EXCEPT !.tab[bi][i] = <<self.tab[bi][i][1], v>>],
              ret |-> Some(self.tab[bi][i][2])]
        ELSE [self |-> hmap_place(IF hmap_len(self) >= self.nb
                                    THEN hmap_resize(self, 2 * self.nb)
                                    ELSE self, k, v),
              ret |-> None]

\* HashMap::remove
hmap_remove(self, k) ==
  LET bi == bucket_of(self, k)
      b == self.tab[bi]
      i == find(b, k)
  IN  IF i = 0
        THEN [self |-> self, ret |-> None]
        ELSE [self |-> [self EXCEPT !.tab[bi] =
                          SubSeq(b, 1, i - 1) \o SubSeq(b, i + 1, Len(b))],
              ret |-> Some(b[i][2])]

\* HashMap::reserve: makes room for `additional` more entries, placing the
\* entries again in a larger table when the current one is too small.
hmap_reserve(self, additional) ==
  IF hmap_len(self) + additional > self.nb
    THEN hmap_resize(self, next_power_of_two(hmap_len(self) + additional,
                                             self.nb))
    ELSE self

\* derive(PartialEq) for IntHMap, that is HashMap::eq: as many entries, and
\* every key of the one maps to an equal value in the other.
hmap_eq(self, other) ==
  /\ hmap_len(self) = hmap_len(other)
  /\ \A i \in 1 .. hmap_len(self) :
       hmap_get(other, hmap_iter(self)[i][1]) = Some(hmap_iter(self)[i][2])

\* Hash for IntHMap: the values it writes to the hasher, key then value for
\* each entry, in iteration order.
RECURSIVE hmap_hash_from(_)
hmap_hash_from(entries) ==
  IF entries = << >>
    THEN << >>
    ELSE <<t_inner(Head(entries)[1]), Head(entries)[2]>>
         \o hmap_hash_from(Tail(entries))
hmap_hash(self) == hmap_hash_from(hmap_iter(self))

\* ------------------------------------------------------------------------
\* The adapter ChainOne<Elem, I>: [iter, and_then].  The inner iterator I is
\* any Iterator: it is modelled by the results of its successive calls of
\* next(), a sequence of Option values, followed by None for ever.  It may
\* resume, that is return Some again after a None.

\* Iterator::next of the inner iterator.
inner_next(it) ==
  IF it = << >>
    THEN [self |-> it, ret |-> None]
    ELSE [self |-> Tail(it), ret |-> Head(it)]

\* chain_one(self, elem)
chain_one(it, elem) == [iter |-> it, and_then |-> Some(elem)]

\* Variant of next that returns and_then without taking it.
chain_next_keep(self) ==
  LET next == inner_next(self.iter)
  IN  IF next.ret # None
        THEN [self |-> [self EXCEPT !.iter = next.self], ret |-> next.ret]
        ELSE [self |-> [self EXCEPT !.iter = next.self], ret |-> self.and_then]

\* Iterator::next for ChainOne: the inner item if there is one, else
\* and_then, swapped for None.
chain_next(self) ==
  LET next == inner_next(self.iter)
  IN  IF next.ret # None
        THEN [self |-> [self EXCEPT !.iter = next.self], ret |-> next.ret]
        ELSE [self |-> [self EXCEPT !.iter = next.self, !.and_then = None],
              ret |-> self.and_then]

\* ------------------------------------------------------------------------
\* The build: what the compiler is given.  Nothing in the sources ties the
\* custom cfg flag `debug` to the build profile, so both are free.

BuildInit ==
  /\ target \in {32, 64}
  /\ debug_assertions \in BOOLEAN
  /\ cfg_debug \in BOOLEAN
  /\ endian \in {"le", "be"}

\* ------------------------------------------------------------------------
\* A program using one vector-map: mode is "map" while the map is live and
\* not borrowed, "ref_iter" while an index_iter() borrows it, "own_iter"
\* once into_index_iter() has consumed it, "panicked" after a panic.

Vecs == UNION {[1 .. n -> Elems] : n \in 0 .. MaxLen}
Indices == {t_new(i) : i \in (0 .. MaxLen) \cup {USIZE_MAX}}

Ret(op, panic, idx, elem, val, before) ==
  [op |-> op, panic |-> panic, idx |-> idx, elem |-> elem, val |-> val,
   before |-> before]

RangeInit == range = range_zero_to(0)
HashInit == hasher = build_hasher /\ written = None
HMapInit == hmap = hmap_new
TInit == lhs = t_zero /\ rhs = t_zero
ChainInit == chain = chain_one(<< >>, 1)
TyInit ==
  tyck = [site |-> "index", dom |-> "Row",
          arg |-> [ref |-> FALSE, base |-> "Row"], ok |-> TRUE]

MapInit ==
  /\ map = map_new
  /\ iter = NoIter
  /\ pushes = 0
  /\ lastPass = None

\* What every operation that returns normally to a live map leaves behind.
MapStep(m, r, p) ==
  /\ mode' = IF r.panic THEN "panicked" ELSE "map"
  /\ map' = m
  /\ ret' = r
  /\ pushes' = p
  /\ lastPass' = IF m = map THEN lastPass ELSE None
  /\ iter' = NoIter
  /\ out' = << >>
  /\ done' = FALSE
  /\ UNCHANGED <<build_vars, range_vars, hash_vars, hmap_vars, t_vars, chain_vars,
                  ty_vars>>

MapNew ==
  /\ mode \in {"map", "own_iter"}
  /\ MapStep(map_new, Ret("new", FALSE, t_zero, None, None, << >>), 0)

MapWithCapacity ==
  /\ mode \in {"map", "own_iter"}
  /\ \E capacity \in 0 .. MaxLen :
       MapStep(map_with_capacity(capacity),
               Ret("with_capacity", FALSE, t_zero, None, None, << >>), -1)

MapOf ==
  /\ mode \in {"map", "own_iter"}
  /\ \E vec \in Vecs :
       MapStep(map_of(vec), Ret("of", FALSE, t_zero, None, None, vec), -1)

MapClear ==
  /\ mode = "map"
  /\ MapStep(map_clear(map), Ret("clear", FALSE, t_zero, None, None, map.vec), -1)

MapNextIndex ==
  /\ mode = "map"
  /\ MapStep(map, Ret("next_index", FALSE, map_next_index(map), None, None, map.vec),
             pushes)

MapPush ==
  /\ mode = "map"
  /\ map_len(map) < MaxLen
  /\ \E elem \in Elems :
       MapStep(map_push(map, elem),
               Ret("push", FALSE, map_next_index(map), Some(elem), None, map.vec),
               IF pushes >= 0 THEN pushes + 1 ELSE -1)

MapPop ==
  /\ mode = "map"
  /\ LET r == map_pop(map)
     IN  MapStep(r.self, Ret("pop", FALSE, t_zero, None, r.ret, map.vec), -1)

MapSwap ==
  /\ mode = "map"
  /\ \E a \in Indices, b \in Indices :
       LET r == map_swap(map, a, b)
       IN  MapStep(r.self, Ret("swap", r.panic, a, Some(b), None, map.vec), -1)

MapSwapRemove ==
  /\ mode = "map"
  /\ \E idx \in Indices :
       LET r == map_swap_remove(map, idx)
       IN  MapStep(r.self, Ret("swap_remove", r.panic, idx, None, r.ret, map.vec), -1)

MapIndex ==
  /\ mode = "map"
  /\ \E index \in Indices :
       LET r == map_index(map, index)
       IN  MapStep(map, Ret("index", r.panic, index, None, r.ret, map.vec), pushes)

MapIndexMut ==
  /\ mode = "map"
  /\ \E index \in Indices, elem \in Elems :
       LET r == map_index_mut(map, index, elem)
       IN  MapStep(r.self, Ret("index_mut", r.panic, index, Some(elem), None, map.vec),
                   -1)

\* index_iter(): borrows the map until the iterator is dropped.
MapIndexIter ==
  /\ mode = "map"
  /\ mode' = "ref_iter"
  /\ iter' = iter_mk_ref(map)
  /\ out' = << >>
  /\ done' = FALSE
  /\ ret' = Ret("index_iter", FALSE, t_zero, None, None, map.vec)
  /\ UNCHANGED <<map, pushes, lastPass>>
  /\ UNCHANGED <<build_vars, range_vars, hash_vars, hmap_vars, t_vars, chain_vars,
                  ty_vars>>

IterRefNext ==
  /\ mode = "ref_iter"
  /\ LET r == iter_ref_next(iter)
     IN  /\ mode' = IF r.panic THEN "panicked" ELSE "ref_iter"
         /\ iter' = r.self
         /\ out' = IF r.ret = None THEN out ELSE Append(out, r.ret[1])
         /\ done' = (r.ret = None /\ ~r.panic)
  /\ UNCHANGED <<map, ret, pushes, lastPass>>
  /\ UNCHANGED <<build_vars, range_vars, hash_vars, hmap_vars, t_vars, chain_vars,
                  ty_vars>>

\* The borrowing iterator goes out of scope.
IterRefDrop ==
  /\ mode = "ref_iter"
  /\ mode' = "map"
  /\ iter' = NoIter
  /\ lastPass' = IF done THEN Some(out) ELSE lastPass
  /\ out' = << >>
  /\ done' = FALSE
  /\ UNCHANGED <<map, ret, pushes>>
  /\ UNCHANGED <<build_vars, range_vars, hash_vars, hmap_vars, t_vars, chain_vars,
                  ty_vars>>

\* into_index_iter(): the map is moved into the iterator.
MapIntoIndexIter ==
  /\ mode = "map"
  /\ mode' = "own_iter"
  /\ iter' = iter_new(map)
  /\ map' = map_new
  /\ out' = << >>
  /\ done' = FALSE
  /\ ret' = Ret("into_index_iter", FALSE, t_zero, None, None, map.vec)
  /\ pushes' = -1
  /\ lastPass' = None
  /\ UNCHANGED <<build_vars, range_vars, hash_vars, hmap_vars, t_vars, chain_vars,
                  ty_vars>>

IterOwnNext ==
  /\ mode = "own_iter"
  /\ LET r == iter_own_next(iter)
     IN  /\ mode' = IF r.panic THEN "panicked" ELSE "own_iter"
         /\ iter' = r.self
         /\ out' = IF r.ret = None THEN out ELSE Append(out, r.ret[1])
         /\ done' = (r.ret = None /\ ~r.panic)
  /\ UNCHANGED <<map, ret, pushes, lastPass>>
  /\ UNCHANGED <<build_vars, range_vars, hash_vars, hmap_vars, t_vars, chain_vars,
                  ty_vars>>

\* The vector-map code depends on neither the byte order nor the cfg flag.
InitMap ==
  /\ target \in {32, 64}
  /\ debug_assertions \in BOOLEAN
  /\ cfg_debug = FALSE
  /\ endian = "le"
  /\ mode = "map"
  /\ out = << >>
  /\ done = FALSE
  /\ ret = Ret("new", FALSE, t_zero, None, None, << >>)
  /\ MapInit
  /\ RangeInit
  /\ HashInit
  /\ HMapInit
  /\ TInit
  /\ ChainInit
  /\ TyInit

NextMap ==
  \/ MapNew
  \/ MapWithCapacity
  \/ MapOf
  \/ MapClear
  \/ MapNextIndex
  \/ MapPush
  \/ MapPop
  \/ MapSwap
  \/ MapSwapRemove
  \/ MapIndex
  \/ MapIndexMut
  \/ MapIndexIter
  \/ IterRefNext
  \/ IterRefDrop
  \/ MapIntoIndexIter
  \/ IterOwnNext

SpecMap == InitMap /\ [][NextMap]_vars

\* ------------------------------------------------------------------------
\* A program iterating ranges.

\* Raw integers near both ends of the usize domain.
RawVals == (0 .. MaxSpan) \cup ((USIZE_MAX - MaxSpan) .. USIZE_MAX)

RangeStart(r, op) ==
  /\ mode' = "range"
  /\ range' = r
  /\ out' = << >>
  /\ done' = FALSE
  /\ ret' = Ret(op, FALSE, r.start, Some(r.end), None, << >>)
  /\ UNCHANGED <<build_vars, map_vars, hash_vars, hmap_vars, t_vars, chain_vars,
                  ty_vars>>

RangeNew ==
  /\ mode = "range"
  /\ \E start \in RawVals, end \in RawVals :
       /\ end - start <= MaxSpan
       /\ RangeStart(range_new(start, end), "range_new")

RangeZeroTo ==
  /\ mode = "range"
  /\ \E end \in 0 .. MaxSpan : RangeStart(range_zero_to(end), "zero_to")

RangeNext ==
  /\ mode = "range"
  /\ LET r == range_next(range)
     IN  /\ mode' = IF r.panic THEN "panicked" ELSE "range"
         /\ range' = r.self
         /\ out' = IF r.ret = None THEN out ELSE Append(out, r.ret[1])
         /\ done' = (r.ret = None /\ ~r.panic)
  /\ UNCHANGED ret
  /\ UNCHANGED <<build_vars, map_vars, hash_vars, hmap_vars, t_vars, chain_vars,
                  ty_vars>>

\* The range code depends on neither the byte order nor the cfg flag.
InitRange ==
  /\ target \in {32, 64}
  /\ debug_assertions \in BOOLEAN
  /\ cfg_debug = FALSE
  /\ endian = "le"
  /\ mode = "range"
  /\ out = << >>
  /\ done = FALSE
  /\ ret = Ret("zero_to", FALSE, t_zero, Some(t_zero), None, << >>)
  /\ MapInit
  /\ RangeInit
  /\ HashInit
  /\ HMapInit
  /\ TInit
  /\ ChainInit
  /\ TyInit

NextRange ==
  \/ RangeNew
  \/ RangeZeroTo
  \/ RangeNext

SpecRange == InitRange /\ [][NextRange]_vars

\* C4: a range built by new(start, end) with start < end yields exactly
\* end.get() - start.get() values, increasing by one from start to end - 1,
\* and then None; with start >= end it yields nothing; no yielded value is
\* ever >= end.
C4_RangeYields ==
  LET s == t_get(ret.idx)
      e == t_get(ret.elem[1])
      n == IF s < e THEN e - s ELSE 0
  IN  /\ mode = "range"
      /\ range.end = ret.elem[1]
      /\ Len(out) <= n
      /\ \A k \in 1 .. Len(out) : out[k] = t_new(s + k - 1) /\ t_get(out[k]) < e
      /\ (done => Len(out) = n)
      /\ (Len(out) = n <=> range_next(range).ret = None)
      /\ (s >= e => out = << >>)

\* A range that ended at the largest usize and ran to None after 3 values.
C4_Witness ==
  /\ ret.op = "range_new"
  /\ done
  /\ Len(out) = 3
  /\ t_get(out[1]) = t_get(ret.idx)
  /\ t_get(out[3]) = USIZE_MAX - 1
  /\ t_get(ret.elem[1]) = USIZE_MAX

\* ------------------------------------------------------------------------
\* A program driving one hasher.

\* The byte slices handed to write: the bytes of a usize, a shorter prefix
\* of them, or one byte more.
FullSlices == {to_ne_bytes(n) : n \in RawVals}
ShortSlices == {SubSeq(f, 1, j) : f \in FullSlices, j \in {0, 1, usize_bytes - 1}}
LongSlices == {Append(f, b) : f \in FullSlices, b \in 0 .. ByteRadix - 1}
Slices == FullSlices \cup ShortSlices \cup LongSlices

\* The usize whose bytes a slice is, if any.
usize_of(bytes) ==
  LET S == {n \in RawVals : to_ne_bytes(n) = bytes}
  IN  IF S = {} THEN None ELSE Some(CHOOSE n \in S : TRUE)

HashBuild ==
  /\ mode = "hash"
  /\ hasher' = build_hasher
  /\ written' = None
  /\ ret' = Ret("build_hasher", FALSE, t_zero, None, None, << >>)
  /\ UNCHANGED <<mode, out, done>>
  /\ UNCHANGED <<build_vars, map_vars, range_vars, hmap_vars, t_vars, chain_vars,
                  ty_vars>>

HashWrite ==
  /\ mode = "hash"
  /\ \E bytes \in Slices :
       LET r == write(hasher, bytes)
       IN  /\ mode' = IF r.panic THEN "panicked" ELSE "hash"
           /\ hasher' = r.self
           /\ written' = IF r.panic THEN None ELSE usize_of(bytes)
           /\ ret' = Ret("write", r.panic, t_zero, Some(bytes), None, hasher.buf)
  /\ UNCHANGED <<out, done>>
  /\ UNCHANGED <<build_vars, map_vars, range_vars, hmap_vars, t_vars, chain_vars,
                  ty_vars>>

HashFinish ==
  /\ mode = "hash"
  /\ ret' = Ret("finish", FALSE, t_zero, None, Some(finish(hasher)), hasher.buf)
  /\ UNCHANGED <<mode, out, done, hasher, written>>
  /\ UNCHANGED <<build_vars, map_vars, range_vars, hmap_vars, t_vars, chain_vars,
                  ty_vars>>

InitHash ==
  /\ BuildInit
  /\ mode = "hash"
  /\ out = << >>
  /\ done = FALSE
  /\ ret = Ret("build_hasher", FALSE, t_zero, None, None, << >>)
  /\ MapInit
  /\ RangeInit
  /\ HashInit
  /\ HMapInit
  /\ TInit
  /\ ChainInit
  /\ TyInit

NextHash ==
  \/ HashBuild
  \/ HashWrite
  \/ HashFinish

SpecHash == InitHash /\ [][NextHash]_vars

\* C7: the trivial hasher is the identity on keys: after a last write of
\* exactly the usize_bytes bytes of n, finish() returns n (zero-extended to
\* 64 bits), whatever earlier writes stored; so distinct keys get distinct
\* hash values.
C7_IdentityHash ==
  /\ (written # None => finish(hasher) = written[1])
  /\ ((ret.op = "finish" /\ written # None) =>
        ret.val = written /\ ret.val[1] <= USIZE_MAX)
  /\ \A n \in RawVals : hash_key(t_new(n)) = n
  /\ \A n1 \in RawVals, n2 \in RawVals :
       n1 # n2 => hash_key(t_new(n1)) # hash_key(t_new(n2))

\* A full-width write of 1 over a buffer in which an earlier write had
\* stored the bytes of the largest usize.
C7_Witness ==
  /\ ret.op = "write"
  /\ ret.before = to_ne_bytes(USIZE_MAX)
  /\ written = Some(1)
  /\ mode = "hash"

\* C8: in a debug build every write of a slice whose length is not
\* usize_bytes, shorter or longer, panics in the precondition check before
\* any byte is stored.
C8_DebugRejectsWrongWidth ==
  (ret.op = "write" /\ debug_assertions /\ Len(ret.elem[1]) # usize_bytes) =>
    (ret.panic /\ hasher.buf = ret.before)

\* ------------------------------------------------------------------------
\* A program using one hash map, through Deref / DerefMut to the HashMap.

\* Keys at both ends of the usize domain; some share a bucket.
KeySet == {t_new(n) : n \in (0 .. NumKeys - 2) \cup {USIZE_MAX}}

HMapStep(h, r) ==
  /\ hmap' = h
  /\ ret' = r
  /\ UNCHANGED <<mode, out, done>>
  /\ UNCHANGED <<build_vars, map_vars, range_vars, hash_vars, t_vars, chain_vars,
                  ty_vars>>

HMapNew ==
  /\ mode = "hmap"
  /\ HMapStep(hmap_new, Ret("new", FALSE, t_zero, None, None, hmap))

HMapWithCapacity ==
  /\ mode = "hmap"
  /\ \E capa \in 0 .. NumKeys :
       HMapStep(hmap_with_capacity(capa),
                Ret("with_capacity", FALSE, t_zero, None, None, hmap))

HMapInsert ==
  /\ mode = "hmap"
  /\ \E k \in KeySet, v \in Elems :
       LET r == hmap_insert(hmap, k, v)
       IN  HMapStep(r.self, Ret("insert", FALSE, k, Some(v), r.ret, hmap))

HMapGet ==
  /\ mode = "hmap"
  /\ \E k \in KeySet :
       HMapStep(hmap, Ret("get", FALSE, k, None, hmap_get(hmap, k), hmap))

HMapRemove ==
  /\ mode = "hmap"
  /\ \E k \in KeySet :
       LET r == hmap_remove(hmap, k)
       IN  HMapStep(r.self, Ret("remove", FALSE, k, None, r.ret, hmap))

HMapReserve ==
  /\ mode = "hmap"
  /\ \E additional \in 0 .. NumKeys :
       HMapStep(hmap_reserve(hmap, additional),
                Ret("reserve", FALSE, t_zero, None, None, hmap))

\* Keys are always hashed through write_usize, so the cfg flag and the
\* profile do not matter here.
InitHMap ==
  /\ target \in {32, 64}
  /\ debug_assertions = TRUE
  /\ cfg_debug = FALSE
  /\ endian \in {"le", "be"}
  /\ mode = "hmap"
  /\ out = << >>
  /\ done = FALSE
  /\ ret = Ret("new", FALSE, t_zero, None, None, hmap_new)
  /\ MapInit
  /\ RangeInit
  /\ HashInit
  /\ HMapInit
  /\ TInit
  /\ ChainInit
  /\ TyInit

NextHMap ==
  \/ HMapNew
  \/ HMapWithCapacity
  \/ HMapInsert
  \/ HMapGet
  \/ HMapRemove
  \/ HMapReserve

SpecHMap == InitHMap /\ [][NextHMap]_vars

\* Number of entries a table holds for a key.
EntriesOf(h, k) ==
  Cardinality({i \in 1 .. Len(hmap_iter(h)) : hmap_iter(h)[i][1] = k})

\* C5: both of two distinct inserted keys are retrieved with their own
\* values; inserting a key again replaces its value, keeps exactly one entry
\* for it and leaves the value of every other key as it was.
C5_InsertGet ==
  /\ \A k \in KeySet : EntriesOf(hmap, k) <= 1
  /\ (ret.op = "insert" =>
        /\ hmap_get(hmap, ret.idx) = ret.elem
        /\ EntriesOf(hmap, ret.idx) = 1
        /\ ret.val = hmap_get(ret.before, ret.idx)
        /\ \A k2 \in KeySet \ {ret.idx} :
             /\ hmap_get(hmap, k2) = hmap_get(ret.before, k2)
             /\ EntriesOf(hmap, k2) = EntriesOf(ret.before, k2))
  /\ (ret.op = "get" =>
        ret.val = IF EntriesOf(hmap, ret.idx) = 0
                    THEN None
                    ELSE LET i == CHOOSE j \in 1 .. Len(hmap_iter(hmap)) :
                                    hmap_iter(hmap)[j][1] = ret.idx
                         IN  Some(hmap_iter(hmap)[i][2]))

\* A key inserted again with a new value while another key, of another
\* value, sits in the same bucket.
C5_Witness ==
  /\ ret.op = "insert"
  /\ ret.val # None
  /\ ret.val # ret.elem
  /\ \E k2 \in KeySet \ {ret.idx} :
       /\ bucket_of(hmap, k2) = bucket_of(hmap, ret.idx)
       /\ hmap_get(hmap, k2) # None
       /\ hmap_get(hmap, k2) # ret.elem

\* C15: two IntHMap values that compare equal, whatever their capacity and
\* the insertions and removals that built them, feed the same sequence of
\* writes to a hasher in IntHMap::hash.  Stated of a map and the map it was
\* before its last operation.
C15_HashAgreesWithEq ==
  hmap_eq(hmap, ret.before) => hmap_hash(hmap) = hmap_hash(ret.before)

\* ------------------------------------------------------------------------
\* A program computing with two indices of one domain.

TStep(l, r, res) ==
  /\ mode' = IF res.panic THEN "panicked" ELSE "t"
  /\ lhs' = l
  /\ rhs' = r
  /\ ret' = res
  /\ UNCHANGED <<out, done>>
  /\ UNCHANGED <<build_vars, map_vars, range_vars, hash_vars, hmap_vars,
                  chain_vars, ty_vars>>

\* $t::new(n) followed by get().
TNew ==
  /\ mode = "t"
  /\ \E n \in RawVals :
       \/ TStep(t_new(n), rhs,
                Ret("new", FALSE, t_new(n), None, Some(t_get(t_new(n))), <<n>>))
       \/ TStep(lhs, t_new(n),
                Ret("new", FALSE, t_new(n), None, Some(t_get(t_new(n))), <<n>>))

\* From<usize> followed by Into<usize>.
TFrom ==
  /\ mode = "t"
  /\ \E n \in RawVals :
       TStep(t_from(n), rhs,
             Ret("from", FALSE, t_from(n), None, Some(t_into(t_from(n))), <<n>>))

\* inc and dec are stepped only from values near the ends of the domain.
TInc ==
  /\ mode = "t"
  /\ t_get(lhs) \in RawVals
  /\ LET r == t_inc(lhs)
     IN  TStep(IF r.panic THEN lhs ELSE r.self, rhs,
               Ret("inc", r.panic, lhs, None, None, << >>))

TDec ==
  /\ mode = "t"
  /\ t_get(lhs) \in RawVals
  /\ LET r == t_dec(lhs)
         \* the value before an inc() that this dec() directly follows
         undone == IF ret.op = "inc" /\ ~ret.panic THEN Some(ret.idx) ELSE None
     IN  TStep(IF r.panic THEN lhs ELSE r.self, rhs,
               Ret("dec", r.panic, lhs, undone, None, << >>))

\* lhs < rhs, lhs.partial_cmp(rhs), lhs == rhs.
TCmp ==
  /\ mode = "t"
  /\ TStep(lhs, rhs,
           Ret("cmp", FALSE, lhs, Some(rhs),
               Some(<<t_lt(lhs, rhs), t_partial_cmp(lhs, rhs), t_eq(lhs, rhs)>>),
               << >>))

\* lhs < int, lhs.partial_cmp(int), lhs == int for a raw usize.
TCmpUsize ==
  /\ mode = "t"
  /\ \E int \in RawVals :
       TStep(lhs, rhs,
             Ret("cmp_usize", FALSE, lhs, None,
                 Some(<<t_lt_usize(lhs, int), t_partial_cmp_usize(lhs, int),
                        t_eq_usize(lhs, int)>>),
                 <<int>>))

\* The wrapper depends on neither the byte order nor the cfg flag.
InitT ==
  /\ target \in {32, 64}
  /\ debug_assertions \in BOOLEAN
  /\ cfg_debug = FALSE
  /\ endian = "le"
  /\ mode = "t"
  /\ out = << >>
  /\ done = FALSE
  /\ ret = Ret("new", FALSE, t_zero, None, Some(0), <<0>>)
  /\ MapInit
  /\ RangeInit
  /\ HashInit
  /\ HMapInit
  /\ TInit
  /\ ChainInit
  /\ TyInit

NextT ==
  \/ TNew
  \/ TFrom
  \/ TInc
  \/ TDec
  \/ TCmp
  \/ TCmpUsize

SpecT == InitT /\ [][NextT]_vars

\* C6: wrapping is an order-preserving bijection with the raw integers:
\* new(n).get() = n, also through From / Into; a < b iff a.get() < b.get();
\* comparing an index with a raw usize is comparing its raw value with it.
C6_WrapOrderIso ==
  /\ (ret.op \in {"new", "from"} =>
        /\ ret.val = Some(ret.before[1])
        /\ t_get(ret.idx) = ret.before[1])
  /\ \A n1 \in RawVals, n2 \in RawVals : n1 # n2 => t_new(n1) # t_new(n2)
  /\ (ret.op = "cmp" =>
        LET x == t_get(ret.idx)
            y == t_get(ret.elem[1])
        IN  /\ ret.val[1][1] <=> x < y
            /\ ret.val[1][2] = "Less" <=> x < y
            /\ ret.val[1][2] = "Greater" <=> x > y
            /\ ret.val[1][3] <=> x = y)
  /\ (ret.op = "cmp_usize" =>
        LET x == t_get(ret.idx)
            y == ret.before[1]
        IN  /\ ret.val[1][1] <=> x < y
            /\ ret.val[1][2] = "Less" <=> x < y
            /\ ret.val[1][2] = "Greater" <=> x > y
            /\ ret.val[1][3] <=> x = y)

\* A comparison of a small index with the index of the largest usize.
C6_Witness ==
  /\ ret.op = "cmp"
  /\ t_get(ret.idx) = 1
  /\ t_get(ret.elem[1]) = USIZE_MAX
  /\ ret.val[1][1]

\* ------------------------------------------------------------------------
\* Properties of the vector-map (checked under SpecMap).

\* The pairs (0, v_0), ..., (n-1, v_(n-1)) of a vector v.
IndexedPairs(v) == [k \in 1 .. Len(v) |-> <<t_new(k - 1), v[k]>>]
IsPrefix(s, t) == Len(s) <= Len(t) /\ s = SubSeq(t, 1, Len(s))

\* C1: swap_remove(i) with i.get() < n = len() >= 1 returns the element that
\* was at i, leaves len() = n - 1 and, when i was not the last index, the
\* element formerly at n - 1 is then the element at i.
C1_SwapRemove ==
  (ret.op = "swap_remove" /\ t_get(ret.idx) < Len(ret.before)) =>
    LET n == Len(ret.before)
        i == t_get(ret.idx)
    IN  /\ ~ret.panic
        /\ mode = "map"
        /\ ret.val = Some(ret.before[i + 1])
        /\ map_len(map) = n - 1
        /\ (i # n - 1 =>
              map_index(map, ret.idx) = [panic |-> FALSE, ret |-> Some(ret.before[n])])

\* A swap_remove of a non-last index whose element differs from the last one.
C1_Witness ==
  /\ ret.op = "swap_remove"
  /\ Len(ret.before) = 3
  /\ t_get(ret.idx) = 0
  /\ ret.before[1] # ret.before[3]
  /\ mode = "map"

\* C2: over any sequence of k pushes onto a map created by new(), the value
\* next_index() had right before a push is the index at which map[index]
\* then reads the pushed element, and len() = k after the k-th push.
C2_PushAtNextIndex ==
  /\ (ret.op = "push" =>
        map_index(map, ret.idx) = [panic |-> FALSE, ret |-> ret.elem])
  /\ (pushes >= 0 => map_len(map) = pushes)
  /\ ((ret.op = "push" /\ pushes >= 0) => t_get(ret.idx) = pushes - 1)

\* Three pushes since new(), the last of a value other than the first.
C2_Witness ==
  /\ ret.op = "push"
  /\ pushes = 3
  /\ map.vec[1] # map.vec[3]

\* C3: into_index_iter() over v_0 .. v_(n-1) yields exactly (0, v_0), ...,
\* (n-1, v_(n-1)) in ascending order and then None: every item pairs an
\* index with the value the map held there.
C3_IntoIndexIter ==
  (ret.op = "into_index_iter") =>
    /\ mode = "own_iter"
    /\ IsPrefix(out, IndexedPairs(ret.before))
    /\ Len(out) + map_len(iter.map) = Len(ret.before)
    /\ (done => out = IndexedPairs(ret.before))

\* A consuming iteration that ran to None over three elements, not all equal.
C3_Witness ==
  /\ mode = "own_iter"
  /\ done
  /\ Len(out) = 3
  /\ out[1][2] # out[3][2]

\* C9: in every state reached through the constructors, push, pop,
\* swap_remove, swap, clear and indexed mutation, next_index().get() = len():
\* every index below it is valid for indexed access, next_index() itself is
\* not, and it is the index the next push assigns.
C9_NextIndexIsLen ==
  (mode # "own_iter") =>
    /\ t_get(map_next_index(map)) = map_len(map)
    /\ \A i \in 0 .. MaxLen + 1 :
         (i < t_get(map_next_index(map))) <=> ~map_index(map, t_new(i)).panic
    /\ map_index(map, map_next_index(map)).panic
    /\ \A elem \in Elems :
         map_index(map_push(map, elem), map_next_index(map)) =
           [panic |-> FALSE, ret |-> Some(elem)]

\* A non-empty map just after a removal.
C9_Witness ==
  /\ ret.op \in {"swap_remove", "pop"}
  /\ ~ret.panic
  /\ map_len(map) = 2

\* C10: index_iter() over v_0 .. v_(n-1) yields exactly (0, &v_0), ...,
\* (n-1, &v_(n-1)) in ascending order, then None once its cursor reaches
\* len(); the map is unchanged, and each fresh call starts at index 0 and
\* yields the same sequence.
C10_IndexIter ==
  /\ (ret.op = "index_iter" => mode \in {"ref_iter", "map"})
  /\ (mode = "ref_iter" =>
        /\ map.vec = ret.before
        /\ iter.map = map
        /\ IsPrefix(out, IndexedPairs(map.vec))
        /\ Len(out) = t_get(iter.cursor)
        /\ (done => /\ out = IndexedPairs(map.vec)
                    /\ t_get(iter.cursor) = map_len(map)
                    /\ (lastPass # None => out = lastPass[1])))

\* A second complete pass over the same three elements, not all equal.
C10_Witness ==
  /\ mode = "ref_iter"
  /\ done
  /\ lastPass # None
  /\ Len(out) = 3
  /\ out[1][2] # out[3][2]

\* C11: for every index i with i.get() >= len(), the indexed read map[i],
\* the indexed write map[i] = v and swap_remove(i) panic: none returns an
\* element of another position and none modifies the map.
C11_OutOfBoundsPanics ==
  (/\ ret.op \in {"index", "index_mut", "swap_remove"}
   /\ t_get(ret.idx) >= Len(ret.before)) =>
    /\ ret.panic
    /\ mode = "panicked"
    /\ ret.val = None
    /\ map.vec = ret.before

\* An access one past the end of a map of three elements, and one at the
\* largest usize.
C11_Witness ==
  /\ ret.op \in {"index", "index_mut", "swap_remove"}
  /\ Len(ret.before) = 3
  /\ t_get(ret.idx) \in {3, USIZE_MAX}
  /\ ret.panic

\* C12: dec() on n > 0 leaves n - 1, and inc() followed by dec() restores
\* the value; dec() on zero panics in a debug build, without leaving the
\* wrapped-around maximum in the index, and is unchecked in a release build.
C12_Dec ==
  (ret.op = "dec") =>
    /\ (t_get(ret.idx) > 0 =>
          /\ ~ret.panic
          /\ mode = "t"
          /\ t_get(lhs) = t_get(ret.idx) - 1)
    /\ (ret.elem # None => ~ret.panic /\ lhs = ret.elem[1])
    /\ ((t_get(ret.idx) = 0 /\ debug_assertions) =>
          /\ ret.panic
          /\ mode = "panicked"
          /\ t_get(lhs) # USIZE_MAX)
    /\ ((t_get(ret.idx) = 0 /\ ~debug_assertions) =>
          /\ ~ret.panic
          /\ mode = "t")

\* A dec() of the zero index in a debug build.
C12_Witness ==
  /\ ret.op = "dec"
  /\ t_get(ret.idx) = 0
  /\ debug_assertions
  /\ ret.panic

\* ------------------------------------------------------------------------
\* A program iterating a ChainOne.

Options == {None} \cup {Some(e) : e \in Elems}
InnerIters == UNION {[1 .. n -> Options] : n \in 0 .. MaxLen}

ChainOne ==
  /\ mode = "chain"
  /\ \E it \in InnerIters, elem \in Elems :
       /\ chain' = chain_one(it, elem)
       /\ ret' = Ret("chain_one", FALSE, t_zero, Some(elem), None, it)
  /\ out' = << >>
  /\ done' = FALSE
  /\ UNCHANGED mode
  /\ UNCHANGED <<build_vars, map_vars, range_vars, hash_vars, hmap_vars, t_vars,
                  ty_vars>>

ChainNext ==
  /\ mode = "chain"
  /\ LET r == chain_next(chain)
     IN  /\ chain' = r.self
         /\ out' = IF r.ret = None THEN out ELSE Append(out, r.ret[1])
         /\ done' = (r.ret = None)
  /\ UNCHANGED <<mode, ret>>
  /\ UNCHANGED <<build_vars, map_vars, range_vars, hash_vars, hmap_vars, t_vars,
                  ty_vars>>

\* The adapter depends on nothing of the build.
InitChain ==
  /\ target = 64
  /\ debug_assertions \in BOOLEAN
  /\ cfg_debug = FALSE
  /\ endian = "le"
  /\ mode = "chain"
  /\ out = << >>
  /\ done = FALSE
  /\ ret = Ret("chain_one", FALSE, t_zero, Some(1), None, << >>)
  /\ MapInit
  /\ RangeInit
  /\ HashInit
  /\ HMapInit
  /\ TInit
  /\ ChainInit
  /\ TyInit

NextChain ==
  \/ ChainOne
  \/ ChainNext

SpecChain == InitChain /\ [][NextChain]_vars

\* The items e_1 .. e_n an inner iterator produces up to its first None.
RECURSIVE Produced(_)
Produced(it) ==
  IF it = << >> \/ Head(it) = None
    THEN << >>
    ELSE <<Head(it)[1]>> \o Produced(Tail(it))

\* The inner iterator produces nothing more after its first None.
ProducesOnly(it) ==
  \A i \in 1 .. Len(it) : i > Len(Produced(it)) => it[i] = None

Domains == {"Row", "Col"}
Types == [ref : BOOLEAN, base : Domains \cup {"usize"}]
Owned(b) == [ref |-> FALSE, base |-> b]
Ref(b) == [ref |-> TRUE, base |-> b]

\* From<A> for $t: From<usize>, From<&usize> and the reflexive From<T> for T.
ty_from(A, D) == A \in {Owned("usize"), Ref("usize"), Owned(D)}

\* A: Into<T>.  Into<$t> comes from From<A> for $t; Into<usize> is
\* implemented for $t and for &$t, and holds of usize itself.
ty_into(A, T) ==
  \/ T.base \in Domains /\ ~T.ref /\ ty_from(A, T.base)
  \/ T = Owned("usize") /\ (A.base \in Domains \/ A = Owned("usize"))

\* $t: PartialEq<A>: the derived instance and PartialEq<usize>.
ty_partial_eq(D, A) == A \in {Owned(D), Owned("usize")}

\* $t: PartialOrd<A>: the derived instance and PartialOrd<usize>.
ty_partial_ord(D, A) == A \in {Owned(D), Owned("usize")}

\* $t: Add<A>, from impl<T: Into<usize>> Add<T> for $t.
ty_add(D, A) == ty_into(A, Owned("usize"))

\* $t: AddAssign<A>, from impl<T: Into<usize>> AddAssign<T> for $t.
ty_add_assign(D, A) == ty_into(A, Owned("usize"))

\* Places taking a position of a $map, a key of a hash map or set, a bound
\* of a $range, an operand of a comparison, an operand of an addition.
PositionSites == {"index", "index_mut", "swap", "swap_remove"}
KeySites == {"hmap_insert", "hmap_get", "hset_insert", "hset_contains"}
BoundSites == {"range_new_start", "range_new_end", "zero_to"}
CmpSites == {"eq", "partial_cmp"}
ArithSites == {"add", "add_assign"}

\* Whether an argument of type A type-checks at a place of the items
\* generated for the domain D.
accepts(site, D, A) ==
  CASE site \in PositionSites -> A = Owned(D)
    [] site \in KeySites -> A = Owned(D)
    [] site \in BoundSites -> ty_into(A, Owned(D))
    [] site = "eq" -> ty_partial_eq(D, A)
    [] site = "partial_cmp" -> ty_partial_ord(D, A)
    [] site = "add" -> ty_add(D, A)
    [] site = "add_assign" -> ty_add_assign(D, A)

\* A build type-checking one use after another.

TyStep(site, D, A) ==
  /\ tyck' = [site |-> site, dom |-> D, arg |-> A,
              ok |-> accepts(site, D, A)]
  /\ UNCHANGED <<build_vars, shared_vars, map_vars, range_vars, hash_vars,
                  hmap_vars, t_vars, chain_vars>>

TyPosition ==
  /\ mode = "ty"
  /\ \E site \in PositionSites, D \in Domains, A \in Types : TyStep(site, D, A)

TyKey ==
  /\ mode = "ty"
  /\ \E site \in KeySites, D \in Domains, A \in Types : TyStep(site, D, A)

TyBound ==
  /\ mode = "ty"
  /\ \E site \in BoundSites, D \in Domains, A \in Types : TyStep(site, D, A)

TyCmp ==
  /\ mode = "ty"
  /\ \E site \in CmpSites, D \in Domains, A \in Types : TyStep(site, D, A)

TyArith ==
  /\ mode = "ty"
  /\ \E site \in ArithSites, D \in Domains, A \in Types : TyStep(site, D, A)

\* Type checking depends on nothing of the build.
InitTy ==
  /\ target = 64
  /\ debug_assertions = TRUE
  /\ cfg_debug = FALSE
  /\ endian = "le"
  /\ mode = "ty"
  /\ out = << >>
  /\ done = FALSE
  /\ ret = Ret("new", FALSE, t_zero, None, None, << >>)
  /\ MapInit
  /\ RangeInit
  /\ HashInit
  /\ HMapInit
  /\ TInit
  /\ ChainInit
  /\ TyInit

NextTy ==
  \/ TyPosition
  \/ TyKey
  \/ TyBound
  \/ TyCmp
  \/ TyArith

SpecTy == InitTy /\ [][NextTy]_vars

\* C14: an index of one domain is rejected at build time wherever an index
\* of the other domain is expected: as vector-map position, hash-map or set
\* key, range bound, or operand of a comparison or of arithmetic.
C14_DomainsIncompatible ==
  (tyck.arg.base \in Domains /\ tyck.arg.base # tyck.dom) => ~tyck.ok

====
